---- MODULE Spec2Model ----
(***************************************************************************)
(* Model of tap_pardot/client.py: the Client of the Pardot API with its    *)
(* daily call counter kept in Redis, its login / re-login, and the         *)
(* backoff.on_exception wrapper around describe and _fetch.                *)
(*                                                                         *)
(* One step of a client is the code between two interactions with the      *)
(* outside (an HTTP exchange or a Redis command): the Redis key is the     *)
(* only state clients share, so each step holds at most one Redis command. *)
(***************************************************************************)
EXTENDS Integers, Sequences, FiniteSets, TLC

(* ------------------------------ bounds -------------------------------- *)
\* largest count the Redis key may already hold when the run starts
MaxInit == 1
\* largest configured daily_limit
MaxLimit == 4
\* most backoff retries of one logical call the model follows
MaxRetries == 3

(* ----------------------------- constants ------------------------------ *)
\* Python's None: redis.get of a missing key, config.get("daily_limit", None),
\* the class attributes api_key / api_version before the first login.
None == -1
\* content.get("err") of a body without an "err" field
NoErr == 0
\* the code compared in is_not_retryable_pardot_exception
ConcurrencyCode == 66
\* the code that makes _make_request re-authenticate
InvalidKeyCode == 1
\* the code that makes _make_request raise PardotUserLimitReached
LimitCode == 122
\* the code attribute PardotUserLimitReached sets on itself
UserLimitCode == 1
\* the version login falls back to
DefaultVersion == 3

\* two client instances (possibly of two processes) on one account and day
Clients == {"a", "b"}
\* the client of the single-instance specification
Solo == {"a"}

\* Embedded Pardot error codes the remote side answers with: invalid key,
\* invalid credentials, concurrency limit, daily API limit.
ErrCodes == {InvalidKeyCode, 15, ConcurrencyCode, LimitCode}
\* HTTP statuses the remote side answers with
Statuses == {200, 404, 503}
\* api_key values the login endpoint hands out
Keys == {1, 2}
\* "version" values of a login response (None: the field is missing)
Versions == {None, 3, 4}
Limits == {None} \cup 0..MaxLimit
Ops == {"describe", "get", "post"}

\* A response to a data / describe request: status, whether the body parses
\* as JSON, and the embedded error code (NoErr: no "err" field).
DataResponses ==
    {[status |-> s, json |-> FALSE, err |-> NoErr] : s \in Statuses}
    \cup {[status |-> s, json |-> TRUE, err |-> e] :
             s \in Statuses, e \in {NoErr} \cup ErrCodes}

\* A response of the login endpoint. Only a 200 JSON body without "err" is
\* read for api_key and version.
AuthResponses ==
    {[status |-> s, json |-> FALSE, err |-> NoErr, api_key |-> None,
      version |-> None] : s \in Statuses}
    \cup {[status |-> 200, json |-> TRUE, err |-> e, api_key |-> None,
            version |-> None] : e \in ErrCodes}
    \cup {[status |-> 200, json |-> TRUE, err |-> NoErr, api_key |-> k,
            version |-> v] : k \in {None} \cup Keys, v \in Versions}

NoRet == [status |-> 0, json |-> FALSE, err |-> NoErr]

(* ----------------------------- exceptions ----------------------------- *)
NoExc == [type |-> "none", code |-> None]
Pardot5xxError == [type |-> "Pardot5xxError", code |-> None]
PardotException(code) == [type |-> "PardotException", code |-> code]
PardotUserLimitReached == [type |-> "PardotUserLimitReached", code |-> UserLimitCode]
\* raised by the libraries the code calls
HTTPError == [type |-> "HTTPError", code |-> None]
ValueError == [type |-> "ValueError", code |-> None]
KeyError == [type |-> "KeyError", code |-> None]
TypeError == [type |-> "TypeError", code |-> None]

VARIABLES
    store,        \* value of the Redis key tap-pardot/<account>/<date>, or None
    store0,       \* history: the count the key stood for when the run started
    incrs,        \* history: number of INCR commands issued on the key so far
    limit,        \* limit[c]: self.api_calls_limit
    pc,           \* pc[c]: where client c stands
    curr,         \* curr[c]: curr_api_calls_made of the constructor
    num,          \* num[c]: num_api_calls_made of _make_request
    api_key,      \* api_key[c]: self.api_key
    api_version,  \* api_version[c]: self.api_version
    exc,          \* exc[c]: last exception raised inside c's call or constructor
    ret,          \* ret[c]: content returned to the caller by the last call
    waits,        \* waits[c]: delays the wrapper slept in the current call
    sends,        \* history: data requests sent in the current logical call
    logins,       \* history: login requests sent in the current call / constructor
    count0,       \* history: the stored count when the current call started
    hdr,          \* history: api_key of the header of the last data request
    granted,      \* history: api_key of the last login response that carried one
    op            \* op[c]: the method the caller invoked

vars == <<store, store0, incrs, limit, pc, curr, num, api_key, api_version, exc,
          ret, waits, sends, logins, count0, hdr, granted, op>>

(* ------------------------------ helpers ------------------------------- *)
\* Truth value of an Optional[int] in a Python condition
Truthy(x) == x # None /\ x # 0

\* `not curr_api_calls_made`: redis.get returns None or the non-empty bytes of
\* a decimal number, and non-empty bytes are true even for b"0"
NotBytes(v) == v = None

\* the count a value of the key stands for
CountOf(v) == IF v = None THEN 0 ELSE v

\* Redis INCR: a missing key counts as 0
Incr(v) == CountOf(v) + 1

\* variant: the test written with >, letting a count equal to the limit pass
CtorOverLimitStrict(l, n) == Truthy(l) /\ n > l
\* the constructor's test before login
CtorOverLimit(l, n) == Truthy(l) /\ n >= l

\* variant: the test written with <=, admitting a count equal to the limit
AdmitsAtLimit(l, n) == Truthy(l) /\ n <= l
\* _make_request's test for sending the request
Admits(l, n) == Truthy(l) /\ n < l

\* variant: a constant delay in place of the exponential one
ExpoConstant(n) == 1
\* backoff.expo with its defaults (base 2, factor 1), jitter=None: the n-th
\* delay of one logical call
expo(n) == 2 ^ n

\* variant: a giveup predicate that never gives up
RetryEverything(e) == FALSE
\* giveup predicate of the wrapper
is_not_retryable_pardot_exception(e) ==
    IF e.type = "Pardot5xxError" THEN FALSE
    ELSE IF e.type = "PardotUserLimitReached" THEN TRUE
    ELSE IF e.code = ConcurrencyCode THEN FALSE
    ELSE TRUE

\* variant: the decorator written for PardotException alone
CaughtPardotOnly(e) == e.type = "PardotException"
\* the exception classes backoff.on_exception catches
Caught(e) == e.type \in {"PardotException", "Pardot5xxError"}

\* variant: the decorator without its giveup predicate
RetriedWithoutGiveup(e) == Caught(e)
\* the wrapper sleeps and calls again
Retried(e) == Caught(e) /\ ~is_not_retryable_pardot_exception(e)

\* the exception login() ends with on response r (NoExc: it returns)
LoginExc(r) ==
    IF r.status >= 400 THEN HTTPError
    ELSE IF ~r.json THEN ValueError
    ELSE IF r.err # NoErr THEN PardotException(r.err)
    ELSE IF r.api_key = None THEN KeyError
    ELSE NoExc

\* variant: the increment placed before the checks of the response
LoginCountsAlways(r) == TRUE
\* login() reaches self.redis.incr
LoginCounts(r) == r.status < 400 /\ r.json /\ r.err = NoErr

\* login() reaches the assignment of self.api_version
LoginSetsVersion(r) == LoginCounts(r)

\* login() reaches the assignment of self.api_key
LoginSetsKey(r) == LoginExc(r) = NoExc

\* content.get("version") or "3"
VersionOf(r) == IF r.version = None THEN DefaultVersion ELSE r.version

\* The exception the attempt ends with on the first response r, when that
\* response does not lead to re-authentication (NoExc: content is returned).
FirstExc(r) ==
    IF r.status >= 500 THEN Pardot5xxError
    ELSE IF r.status >= 400 THEN HTTPError
    ELSE IF ~r.json THEN ValueError
    ELSE IF r.err = NoErr \/ r.err = InvalidKeyCode THEN NoExc
    ELSE IF r.err = LimitCode THEN PardotUserLimitReached
    ELSE PardotException(r.err)

\* the first response sends _make_request into login()
Reauth(r) == r.status < 400 /\ r.json /\ r.err = InvalidKeyCode

\* variant: the increment placed before the test of the embedded error
FirstCountsAlways(r) == r.status < 400 /\ r.json
\* the first response reaches self.redis.incr of the else branch
FirstCounts(r) == r.status < 400 /\ r.json /\ r.err = NoErr

\* variant: describe / _fetch without their _check_error
SecondExcUnchecked(r) == IF ~r.json THEN ValueError ELSE NoExc
\* The exception the attempt ends with on the response r to the request sent
\* again after login() (no status check, error_code still holds 1).
SecondExc(r) ==
    IF ~r.json THEN ValueError
    ELSE IF r.err # NoErr THEN PardotException(r.err)
    ELSE NoExc

\* variant: the increment after the second request left out
SecondCountsNever(r) == FALSE
\* the second response reaches self.redis.incr
SecondCounts(r) == r.json

(* ------------------------------- Init --------------------------------- *)
Init ==
    /\ store \in {None} \cup 0..MaxInit
    /\ store0 = CountOf(store)
    /\ incrs = 0
    /\ limit \in [Clients -> Limits]
    /\ pc = [c \in Clients |-> "new"]
    /\ curr = [c \in Clients |-> None]
    /\ num = [c \in Clients |-> 0]
    /\ api_key = [c \in Clients |-> None]
    /\ api_version = [c \in Clients |-> None]
    /\ exc = [c \in Clients |-> NoExc]
    /\ ret = [c \in Clients |-> NoRet]
    /\ waits = [c \in Clients |-> << >>]
    /\ sends = [c \in Clients |-> 0]
    /\ logins = [c \in Clients |-> 0]
    /\ count0 = [c \in Clients |-> 0]
    /\ hdr = [c \in Clients |-> None]
    /\ granted = [c \in Clients |-> None]
    /\ op = [c \in Clients |-> "none"]

(* --------------------------- the two wrappers -------------------------- *)
\* An exception e leaves the decorated describe / _fetch of client c:
\* backoff.on_exception either sleeps the next delay of backoff.expo and
\* calls again, or lets e reach the caller.
Raise(c, e) ==
    /\ exc' = [exc EXCEPT ![c] = e]
    /\ ret' = [ret EXCEPT ![c] = NoRet]
    /\ IF Retried(e)
          THEN /\ Len(waits[c]) < MaxRetries
               /\ pc' = [pc EXCEPT ![c] = "backoff"]
               /\ waits' = [waits EXCEPT ![c] = Append(@, expo(Len(@)))]
          ELSE /\ pc' = [pc EXCEPT ![c] = "raised"]
               /\ UNCHANGED waits

\* describe / _fetch return content to the caller
Return(c, r) ==
    /\ pc' = [pc EXCEPT ![c] = "returned"]
    /\ ret' = [ret EXCEPT ![c] = r]
    /\ UNCHANGED <<exc, waits>>

\* self.redis.incr(self.redis_key) when b holds
IncrIf(b) ==
    IF b THEN store' = Incr(store) /\ incrs' = incrs + 1
         ELSE UNCHANGED <<store, incrs>>

\* the assignments login() makes to the session on response r
SetSession(c, r) ==
    /\ api_version' = IF LoginSetsVersion(r)
                         THEN [api_version EXCEPT ![c] = VersionOf(r)]
                         ELSE api_version
    /\ api_key' = IF LoginSetsKey(r)
                     THEN [api_key EXCEPT ![c] = r.api_key]
                     ELSE api_key

\* the api_key the login endpoint handed out last: a 200 JSON body without
\* "err" that has an api_key
Grant(c, r) ==
    IF r.status = 200 /\ r.json /\ r.err = NoErr /\ r.api_key # None
       THEN [granted EXCEPT ![c] = r.api_key]
       ELSE granted

\* _get_auth_header: the api_key the Authorization header is built from
_get_auth_header(k) == k

\* variant: the header of the first request kept for the request sent again
HeaderBeforeLogin(old, new) == _get_auth_header(old)
\* the header of the request sent again is built after login() returned,
\* from the api_key it stored
HeaderAfterLogin(old, new) == _get_auth_header(new)

(* ----------------------------- constructor ---------------------------- *)
\* __init__ up to curr_api_calls_made = self.redis.get(self.redis_key)
CtorRead(c) ==
    /\ pc[c] = "new"
    /\ curr' = [curr EXCEPT ![c] = store]
    /\ pc' = [pc EXCEPT ![c] = "ctor_read"]
    /\ UNCHANGED <<store, store0, incrs, limit, num, api_key, api_version, exc,
                   ret, waits, sends, logins, count0, hdr, granted, op>>

\* __init__ from `if not curr_api_calls_made` to the request login() sends
CtorInit(c) ==
    /\ pc[c] = "ctor_read"
    /\ store' = IF NotBytes(curr[c]) THEN 0 ELSE store
    /\ LET num_api_calls_made == IF NotBytes(curr[c]) THEN 0 ELSE curr[c]
       IN  IF CtorOverLimit(limit[c], num_api_calls_made)
              THEN /\ pc' = [pc EXCEPT ![c] = "ctor_failed"]
                   /\ exc' = [exc EXCEPT ![c] = PardotUserLimitReached]
                   /\ UNCHANGED logins
              ELSE /\ pc' = [pc EXCEPT ![c] = "ctor_login"]
                   /\ logins' = [logins EXCEPT ![c] = @ + 1]
                   /\ UNCHANGED exc
    /\ UNCHANGED <<store0, incrs, limit, curr, num, api_key, api_version, ret, waits,
                   sends, count0, hdr, granted, op>>

\* login() called by __init__, from the response of the login endpoint on
CtorLogin(c, r) ==
    /\ pc[c] = "ctor_login"
    /\ IncrIf(LoginCounts(r))
    /\ SetSession(c, r)
    /\ granted' = Grant(c, r)
    /\ exc' = [exc EXCEPT ![c] = LoginExc(r)]
    /\ pc' = [pc EXCEPT ![c] = IF LoginExc(r) = NoExc THEN "ready" ELSE "ctor_failed"]
    /\ UNCHANGED <<store0, limit, curr, num, ret, waits, sends, logins, count0, hdr, op>>

(* ------------------------- describe, get, post ------------------------ *)
\* the caller invokes describe, get or post on a constructed client
Call(c, o) ==
    /\ pc[c] \in {"ready", "returned", "raised"}
    /\ pc' = [pc EXCEPT ![c] = "attempt"]
    /\ op' = [op EXCEPT ![c] = o]
    /\ exc' = [exc EXCEPT ![c] = NoExc]
    /\ ret' = [ret EXCEPT ![c] = NoRet]
    /\ waits' = [waits EXCEPT ![c] = << >>]
    /\ sends' = [sends EXCEPT ![c] = 0]
    /\ logins' = [logins EXCEPT ![c] = 0]
    /\ count0' = [count0 EXCEPT ![c] = CountOf(store)]
    /\ UNCHANGED <<store, store0, incrs, limit, curr, num, api_key, api_version, hdr,
                   granted>>

\* _make_request from the read of the count to the first request sent
MakeRequest(c) ==
    /\ pc[c] = "attempt"
    /\ IF store = None
          THEN \* int(None)
               /\ Raise(c, TypeError)
               /\ UNCHANGED <<sends, hdr>>
          ELSE IF Admits(limit[c], store)
          THEN /\ pc' = [pc EXCEPT ![c] = "sent"]
               /\ sends' = [sends EXCEPT ![c] = @ + 1]
               /\ hdr' = [hdr EXCEPT ![c] = _get_auth_header(api_key[c])]
               /\ UNCHANGED <<exc, ret, waits>>
          ELSE /\ Raise(c, PardotUserLimitReached)
               /\ UNCHANGED <<sends, hdr>>
    /\ num' = [num EXCEPT ![c] = IF store = None THEN @ ELSE store]
    /\ UNCHANGED <<store, store0, incrs, limit, curr, api_key, api_version,
                   logins, count0, granted, op>>

\* _make_request from the first response on: status checks, embedded error,
\* count, then _check_error of describe / _fetch; on code 1 up to the request
\* login() sends
Respond(c, r) ==
    /\ pc[c] = "sent"
    /\ IF Reauth(r)
          THEN /\ pc' = [pc EXCEPT ![c] = "relogin"]
               /\ logins' = [logins EXCEPT ![c] = @ + 1]
               /\ UNCHANGED <<store, incrs, exc, ret, waits>>
          ELSE /\ IncrIf(FirstCounts(r))
               /\ IF FirstExc(r) = NoExc THEN Return(c, r) ELSE Raise(c, FirstExc(r))
               /\ UNCHANGED logins
    /\ UNCHANGED <<store0, limit, curr, num, api_key, api_version, sends, count0,
                   hdr, granted, op>>

\* login() called by _make_request, from the response of the login endpoint
\* to the request sent again with the new header
ReLogin(c, r) ==
    /\ pc[c] = "relogin"
    /\ IncrIf(LoginCounts(r))
    /\ SetSession(c, r)
    /\ granted' = Grant(c, r)
    /\ IF LoginExc(r) = NoExc
          THEN /\ pc' = [pc EXCEPT ![c] = "resent"]
               /\ sends' = [sends EXCEPT ![c] = @ + 1]
               /\ hdr' = [hdr EXCEPT ![c] =
                            HeaderAfterLogin(api_key[c], api_key'[c])]
               /\ UNCHANGED <<exc, ret, waits>>
          ELSE /\ Raise(c, LoginExc(r))
               /\ UNCHANGED <<sends, hdr>>
    /\ UNCHANGED <<store0, limit, curr, num, logins, count0, op>>

\* _make_request from the second response on, then _check_error of
\* describe / _fetch
Resent(c, r) ==
    /\ pc[c] = "resent"
    /\ IncrIf(SecondCounts(r))
    /\ IF SecondExc(r) = NoExc THEN Return(c, r) ELSE Raise(c, SecondExc(r))
    /\ UNCHANGED <<store0, limit, curr, num, api_key, api_version, sends, logins,
                   count0, hdr, granted, op>>

\* the wrapper wakes from its sleep and calls describe / _fetch again
Retry(c) ==
    /\ pc[c] = "backoff"
    /\ pc' = [pc EXCEPT ![c] = "attempt"]
    /\ UNCHANGED <<store, store0, incrs, limit, curr, num, api_key, api_version, exc,
                   ret, waits, sends, logins, count0, hdr, granted, op>>

(* --------------------------- specifications --------------------------- *)
\* the steps of client c, the caller choosing among ops and the remote side
\* answering from auth (login endpoint) and data (data / describe endpoints)
Step(c, ops, auth, data) ==
    \/ CtorRead(c)
    \/ CtorInit(c)
    \/ \E r \in auth : CtorLogin(c, r)
    \/ \E o \in ops : Call(c, o)
    \/ MakeRequest(c)
    \/ \E r \in data : Respond(c, r)
    \/ \E r \in auth : ReLogin(c, r)
    \/ \E r \in data : Resent(c, r)
    \/ Retry(c)

\* one instance alone on the key
InitSolo == Init /\ \A c \in Clients \ Solo : limit[c] = None

Next == \E c \in Solo : Step(c, Ops, AuthResponses, DataResponses)

Spec == InitSolo /\ [][Next]_vars

\* Two instances sharing the key. What the instances share is the count, so
\* the remote side answers here with one api_key and no version, and with one
\* response of each kind the count depends on: success, code 1, another
\* embedded error, a 5xx status, an unreadable body.
AuthShared ==
    {r \in AuthResponses :
        r.api_key \in {None, 1} /\ r.version = None /\ r.status # 503
           /\ r.err \in {NoErr, 15}}

DataShared ==
    {r \in DataResponses :
        r.status # 404 /\ r.err \in {NoErr, InvalidKeyCode, 15}
           /\ (r.status = 503 => ~r.json)}

NextShared == \E c \in Clients : Step(c, {"get"}, AuthShared, DataShared)

\* both instances run without a daily_limit or with a daily_limit of 2
InitShared == Init /\ limit \in [Clients -> {None, 2}]

SpecShared == InitShared /\ [][NextShared]_vars

\* backoff.on_exception is given no max_tries and no max_time: the wrapper
\* retries without end. The history of a call (waits, sends, logins) records
\* its first MaxRetries retries; past them an attempt that ends with a retried
\* exception e, after s data requests and l login requests, puts the wrapper
\* to sleep again and is dropped from the history.
PastBound(c, e, s, l) ==
    /\ Len(waits[c]) = MaxRetries
    /\ Retried(e)
    /\ exc' = [exc EXCEPT ![c] = e]
    /\ pc' = [pc EXCEPT ![c] = "backoff"]
    /\ sends' = [sends EXCEPT ![c] = @ - s]
    /\ logins' = [logins EXCEPT ![c] = @ - l]
    /\ UNCHANGED <<ret, waits>>

\* Respond past the recorded retries
RespondPastBound(c, r) ==
    /\ pc[c] = "sent"
    /\ ~Reauth(r)
    /\ IncrIf(FirstCounts(r))
    /\ PastBound(c, FirstExc(r), 1, 0)
    /\ UNCHANGED <<store0, limit, curr, num, api_key, api_version, count0, hdr,
                   granted, op>>

\* ReLogin past the recorded retries
ReLoginPastBound(c, r) ==
    /\ pc[c] = "relogin"
    /\ IncrIf(LoginCounts(r))
    /\ SetSession(c, r)
    /\ granted' = Grant(c, r)
    /\ PastBound(c, LoginExc(r), 1, 1)
    /\ UNCHANGED <<store0, limit, curr, num, count0, hdr, op>>

\* Resent past the recorded retries
ResentPastBound(c, r) ==
    /\ pc[c] = "resent"
    /\ IncrIf(SecondCounts(r))
    /\ PastBound(c, SecondExc(r), 2, 1)
    /\ UNCHANGED <<store0, limit, curr, num, api_key, api_version, count0, hdr,
                   granted, op>>

\* the retries past the recorded ones
StepPastBound(c) ==
    \/ \E r \in DataResponses : RespondPastBound(c, r)
    \/ \E r \in AuthResponses : ReLoginPastBound(c, r)
    \/ \E r \in DataResponses : ResentPastBound(c, r)

\* the steps inside a logical call: the single-threaded client runs on, its
\* sleep ends, and the remote side answers each request
Progress(c) ==
    \/ MakeRequest(c)
    \/ \E r \in DataResponses : Respond(c, r)
    \/ \E r \in AuthResponses : ReLogin(c, r)
    \/ \E r \in DataResponses : Resent(c, r)
    \/ Retry(c)
    \/ StepPastBound(c)

NextUnbounded ==
    \/ Next
    \/ \E c \in Solo : StepPastBound(c)

\* one instance retrying without end, every request answered
SpecFair ==
    InitSolo /\ [][NextUnbounded]_vars /\ WF_vars(\E c \in Solo : Progress(c))

(* ------------------------------- claims ------------------------------- *)
\* the states of a client inside a logical describe / get / post call
InCall == {"attempt", "sent", "relogin", "resent", "backoff"}

\* C1: with a daily limit L configured, an attempt that reads a stored count
\* >= L raises PardotUserLimitReached to the caller, sends no request and
\* leaves the stored count as it is.
C1_AtLimitRaisesWithoutRequest ==
    [][\A c \in Clients :
          (MakeRequest(c) /\ limit[c] # None /\ CountOf(store) >= limit[c])
             => /\ pc'[c] = "raised"
                /\ exc'[c] = PardotUserLimitReached
                /\ sends'[c] = sends[c]
                /\ store' = store]_vars

\* C1 witness: limit 2 (or more) is used up and the call was refused before
\* any request
C1_Witness ==
    \E c \in Clients :
        /\ pc[c] = "raised" /\ exc[c] = PardotUserLimitReached
        /\ limit[c] >= 2 /\ store = limit[c] /\ sends[c] = 0 /\ count0[c] = store

\* C2 (as claimed): without a configured daily limit the local check does not
\* raise PardotUserLimitReached and the request is sent.
C2_NoLimitSendsRequest ==
    [][\A c \in Clients :
          (MakeRequest(c) /\ limit[c] = None /\ store # None)
             => /\ pc'[c] = "sent"
                /\ sends'[c] = sends[c] + 1
                /\ exc'[c] # PardotUserLimitReached]_vars

\* C3: the stored count goes up by exactly one on a login that succeeds and
\* on a first response that is returned as the payload; it is unchanged by
\* an attempt refused by the local check and by a first response that is a
\* non-2xx status, a 5xx status or an embedded error other than code 1.
C3_CountChangesByOutcome ==
    [][\A c \in Clients :
          /\ pc[c] \in {"ctor_login", "relogin"} =>
                \A r \in AuthResponses :
                   ((CtorLogin(c, r) \/ ReLogin(c, r))
                       /\ r.status = 200 /\ r.json /\ r.err = NoErr)
                     => store' = store + 1
          /\ pc[c] = "sent" =>
                \A r \in DataResponses :
                   /\ (Respond(c, r) /\ r.status = 200 /\ r.json /\ r.err = NoErr)
                        => (store' = store + 1 /\ pc'[c] = "returned")
                   /\ (Respond(c, r)
                         /\ (r.status # 200
                               \/ (r.json /\ r.err \notin {NoErr, InvalidKeyCode})))
                        => (store' = store /\ pc'[c] \in {"raised", "backoff"})
          /\ (MakeRequest(c) /\ exc'[c] = PardotUserLimitReached)
                  => store' = store]_vars

\* C3 witness: a call returned the payload of its first response and the
\* count stands one above the count at its start
C3_Witness ==
    \E c \in Clients :
        /\ pc[c] = "returned" /\ sends[c] = 1 /\ logins[c] = 0
        /\ store = count0[c] + 1

\* C4 (as claimed): a call recovered by re-authentication and a successful
\* retry ends with the stored count exactly one above the count at its start.
C4_RecoveredCallAddsOne ==
    [][\A c \in Clients :
          pc[c] = "resent" =>
             \A r \in DataResponses :
                (Resent(c, r) /\ pc'[c] = "returned" /\ Len(waits[c]) = 0)
                   => store' = count0[c] + 1]_vars

\* C4 (amended): the attempt that re-authenticates and returns the payload of
\* the request sent again raises the stored count by exactly two, one for
\* the login and one for the request sent again; the request answered with
\* code 1 is not counted. With no backoff retry before it, that is two above
\* the count at the start of the call.
C4_RecoveredCallAddsTwo ==
    [][\A c \in Clients :
          pc[c] = "resent" =>
             \A r \in DataResponses :
                (Resent(c, r) /\ pc'[c] = "returned")
                   => /\ store' = num[c] + 2
                      /\ Len(waits[c]) = 0 => store' = count0[c] + 2]_vars

\* C4 witness: a call of one attempt, recovered by one login, has returned
C4_Witness ==
    \E c \in Clients :
        /\ pc[c] = "returned" /\ logins[c] = 1 /\ sends[c] = 2
        /\ waits[c] = << >> /\ ret[c].err = NoErr /\ ret[c].json
        /\ store = count0[c] + 2

\* C5 (as claimed): one logical call, all attempts of the wrapper counted,
\* performs at most one login.
C5_AtMostOneReloginPerCall ==
    \A c \in Clients : pc[c] \in InCall \cup {"returned", "raised"} => logins[c] <= 1

\* C6 (as claimed): the stored count is the count at the start plus the
\* increments the instances issued.
C6_NoLostIncrement == CountOf(store) = store0 + incrs

\* C7 (as claimed): no step lowers the stored count, and it is never negative.
C7_CountNeverDecreases ==
    [][CountOf(store') >= CountOf(store) /\ CountOf(store') >= 0]_vars

\* C8: a first login answered with a non-2xx status or with an embedded error
\* ends the constructor with an exception (PardotException with the embedded
\* code in the second case) after one login request, with the stored count
\* and the session untouched; the failed instance sends nothing afterwards.
C8_FailedFirstLoginIsTerminal ==
    [][\A c \in Clients :
          /\ pc[c] = "ctor_login" => \A r \in AuthResponses :
                (CtorLogin(c, r) /\ (r.status # 200 \/ r.err # NoErr))
                  => /\ pc'[c] = "ctor_failed"
                     /\ exc'[c] = IF r.status # 200 THEN HTTPError
                                                   ELSE PardotException(r.err)
                     /\ logins'[c] = 1
                     /\ store' = store
                     /\ api_key'[c] = None /\ api_version'[c] = None
          /\ pc[c] = "ctor_failed"
                  => /\ pc'[c] = "ctor_failed"
                     /\ logins'[c] = logins[c] /\ sends'[c] = 0
                     /\ api_key'[c] = api_key[c]]_vars

\* C8 witness: the constructor failed on embedded error 15
C8_Witness ==
    \E c \in Clients :
        /\ pc[c] = "ctor_failed" /\ exc[c] = PardotException(15)
        /\ logins[c] = 1 /\ api_key[c] = None /\ sends[c] = 0

\* an outcome the claim C9 calls terminal
Terminal(e) ==
    \/ e.type = "HTTPError"
    \/ e.type = "PardotUserLimitReached"
    \/ e.type = "PardotException" /\ e.code \notin {InvalidKeyCode, ConcurrencyCode}

\* C9: an attempt that ends with a non-2xx non-5xx status, an embedded error
\* other than 1 and 66, or PardotUserLimitReached is not retried: the
\* exception reaches the caller and the call sends nothing more.
C9_TerminalOutcomesNotRetried ==
    [][\A c \in Clients :
          /\ (pc[c] \in InCall /\ exc'[c] # exc[c] /\ Terminal(exc'[c]))
                => pc'[c] = "raised"
          /\ (pc[c] = "raised" /\ sends'[c] # sends[c])
                => (sends'[c] = 0 /\ waits'[c] = << >> /\ pc'[c] = "attempt")]_vars

\* C9 witness: embedded error 15 on the first response reached the caller
C9_Witness ==
    \E c \in Clients :
        /\ pc[c] = "raised" /\ exc[c] = PardotException(15)
        /\ sends[c] = 1 /\ waits[c] = << >>

\* C10: a 5xx first response is not surfaced: the wrapper goes to sleep and
\* then calls again, and each delay of a logical call is twice the one
\* before it.
C10_ServerErrorRetriedWithGrowingDelay ==
    [][\A c \in Clients :
          /\ pc[c] = "sent" => \A r \in DataResponses :
                (Respond(c, r) /\ r.status >= 500)
                  => /\ pc'[c] = "backoff" /\ exc'[c] = Pardot5xxError
                     /\ Len(waits'[c]) = Len(waits[c]) + 1
          /\ pc[c] = "backoff" => pc'[c] \in {"backoff", "attempt"}
          /\ \A i \in 1..(Len(waits'[c]) - 1) :
                /\ waits'[c][i + 1] > waits'[c][i]
                /\ waits'[c][i + 1] = 2 * waits'[c][i]]_vars

\* C10 witness: a call sleeps its third delay after three 5xx responses
C10_Witness ==
    \E c \in Clients :
        /\ pc[c] = "backoff" /\ exc[c] = Pardot5xxError
        /\ Len(waits[c]) = 3 /\ sends[c] = 3 /\ logins[c] = 0

\* C11 (as claimed): a 2xx response with embedded code 66, first or sent
\* again, is not surfaced: the wrapper goes to sleep to call again, and the
\* stored count is not incremented for it.
C11_ConcurrencyLimitRetriedUncounted ==
    [][\A c \in Clients :
          pc[c] \in {"sent", "resent"} =>
             \A r \in DataResponses :
                ((Respond(c, r) \/ Resent(c, r))
                    /\ r.status = 200 /\ r.json /\ r.err = ConcurrencyCode)
                  => /\ pc'[c] = "backoff"
                     /\ exc'[c] = PardotException(ConcurrencyCode)
                     /\ store' = store]_vars

\* C12 (as claimed): a response with embedded code 122, first or sent again,
\* ends the call with PardotUserLimitReached, without a retry and without an
\* increment of the stored count.
C12_LimitCodeRaisesUserLimitReached ==
    [][\A c \in Clients :
          pc[c] \in {"sent", "resent"} =>
             \A r \in DataResponses :
                ((Respond(c, r) \/ Resent(c, r))
                    /\ r.status = 200 /\ r.json /\ r.err = LimitCode)
                  => /\ pc'[c] = "raised"
                     /\ exc'[c] = PardotUserLimitReached
                     /\ store' = store]_vars

\* C13 (as claimed): with a daily limit L configured and the stored count at
\* or below L at the start, one instance never drives the count above L.
C13_CountNeverAboveLimit ==
    \A c \in Solo :
        (Truthy(limit[c]) /\ store0 <= limit[c]) => CountOf(store) <= limit[c]

\* C14 (as claimed): api_key and api_version change only on a login that
\* succeeds, and a login that raises leaves api_key, api_version and the
\* stored count as they were.
C14_SessionReplacedWholesale ==
    [][\A c \in Clients :
          /\ (api_key'[c] # api_key[c] \/ api_version'[c] # api_version[c])
                => (pc[c] \in {"ctor_login", "relogin"}
                      /\ pc'[c] \in {"ready", "resent"})
          /\ (pc[c] \in {"ctor_login", "relogin"}
                /\ pc'[c] \in {"ctor_failed", "raised", "backoff"})
                => /\ api_key'[c] = api_key[c]
                   /\ api_version'[c] = api_version[c]
                   /\ store' = store]_vars

\* C15: the request is sent again only when the login has completed and
\* carries the api_key that login obtained, and every data request carries the
\* api_key the login endpoint handed out last.
C15_RequestsCarryLatestKey ==
    [][\A c \in Clients :
          /\ pc'[c] = "resent" /\ pc[c] # "resent"
                => /\ pc[c] = "relogin"
                   /\ logins'[c] = logins[c]
                   /\ \E r \in AuthResponses :
                         /\ ReLogin(c, r)
                         /\ LoginExc(r) = NoExc
                         /\ hdr'[c] = r.api_key
          /\ sends'[c] = sends[c] + 1 => hdr'[c] = granted'[c]]_vars

\* C15 witness: the request sent again after the re-login carries the key
\* that login handed out
C15_Witness ==
    \E c \in Clients :
        /\ pc[c] = "resent" /\ logins[c] = 1 /\ sends[c] = 2
        /\ hdr[c] = granted[c] /\ hdr[c] = 2

\* C16 (as claimed): every data response, first or sent again, with a status
\* >= 500 is retried as Pardot5xxError and with another non-2xx status is
\* raised as a transport error; neither is counted nor returned.
C16_StatusCheckedOnEveryResponse ==
    [][\A c \in Clients :
          pc[c] \in {"sent", "resent"} =>
             \A r \in DataResponses :
                ((Respond(c, r) \/ Resent(c, r)) /\ r.status # 200)
                  => /\ store' = store
                     /\ pc'[c] # "returned"
                     /\ exc'[c] = IF r.status >= 500 THEN Pardot5xxError
                                                      ELSE HTTPError
                     /\ pc'[c] = IF r.status >= 500 THEN "backoff"
                                                     ELSE "raised"]_vars

\* C17: no payload with an "err" field is returned: a body with an embedded
\* error, on the first request or on the one sent again, ends the attempt
\* with an exception or a retry, and what is returned is a JSON body
\* without "err".
C17_NoEmbeddedErrorReturned ==
    [][\A c \in Clients :
          /\ pc[c] \in {"sent", "resent"} =>
                \A r \in DataResponses :
                   ((Respond(c, r) \/ Resent(c, r)) /\ r.json /\ r.err # NoErr)
                     => pc'[c] \in {"relogin", "raised", "backoff"}
          /\ pc'[c] = "returned"
                => (ret'[c].json /\ ret'[c].err = NoErr)]_vars

\* C17 witness: an embedded error on the request sent again after the login
\* reached the caller as an exception
C17_Witness ==
    \E c \in Clients :
        /\ pc[c] = "raised" /\ exc[c] = PardotException(15)
        /\ sends[c] = 2 /\ logins[c] = 1 /\ ret[c] = NoRet

RetryableAnswer(c) ==
    /\ pc[c] = "backoff"
    /\ exc[c] \in {Pardot5xxError, PardotException(ConcurrencyCode)}

\* C19: a call in which only finitely many attempts are answered with a 5xx
\* status or code 66 ends, returning or raising; an attempt sends at most two
\* data requests and one login request.
C19_CallsTerminate ==
    \A c \in Solo :
        /\ [](/\ sends[c] <= 2 * (Len(waits[c]) + 1)
              /\ logins[c] <= Len(waits[c]) + 1)
        /\ (<>[]~RetryableAnswer(c))
              => ((pc[c] \in InCall) ~> (pc[c] \in {"returned", "raised"}))

\* C19 witness: a call ended after retries and a re-login
C19_Witness ==
    \E c \in Solo :
        /\ pc[c] = "returned" /\ Len(waits[c]) = 2
        /\ logins[c] = 1 /\ sends[c] = 4

\* C20 (as claimed): the retries of a call answered with 5xx do not go on
\* forever: the wrapper leaves the cycle of 5xx answers and sleeps.
C20_ServerErrorSurfaced ==
    \A c \in Solo :
        (pc[c] = "backoff" /\ exc[c] = Pardot5xxError)
           ~> ~(pc[c] \in {"backoff", "attempt", "sent"}
                  /\ exc[c] = Pardot5xxError)

\* C20 (amended): a call whose attempts are answered with 5xx is retried
\* without end: no call raises Pardot5xxError to the caller, and after each
\* 5xx answer, however many came before, a further request is sent.
C20_ServerErrorRetriedWithoutEnd ==
    \A c \in Solo :
        /\ [](pc[c] = "raised" => exc[c] # Pardot5xxError)
        /\ (pc[c] = "backoff" /\ exc[c] = Pardot5xxError) ~> (pc[c] = "sent")

\* C20 witness: after MaxRetries 5xx answers the next request is out
C20_Witness ==
    \E c \in Solo :
        /\ pc[c] = "sent" /\ exc[c] = Pardot5xxError
        /\ Len(waits[c]) = MaxRetries /\ sends[c] = MaxRetries + 1

====
